---- MODULE Spec2Model ----
(***************************************************************************)
(* Model of the APSIT notifier: the ticker loop of NotificationBot         *)
(* (fetch, load, diff, dispatch, save, sleep), its shutdown handler, and    *)
(* the WhatsApp channel sender.  Text is a sequence of one-character        *)
(* strings; a dict is a function whose DOMAIN is its key set.               *)
(***************************************************************************)
EXTENDS Integers, Sequences, FiniteSets, TLC

(* ------------------------------ bounds --------------------------------- *)

\* most entries one section of a fetched page carries
MaxLen == 2

\* most poll cycles one run of the ticker loop starts
MaxCycles == 2

\* most entries per section of an input of the change detector (DiffSpec)
DiffMaxLen == 2

(* ------------------------------- data ---------------------------------- *)

\* the keys of the dict parse_content builds, in insertion order
CATEGORIES ==
    << "Latest Announcements", "Exam Notifications", "Office Notifications",
       "Scholarship Section", "Application Formats", "Cultural Events",
       "Technical Clubs", "IEEE & CSI" >>

\* the text of each section name, character by character
SectionChars ==
    ("Latest Announcements" :> <<"L", "a", "t", "e", "s", "t", " ", "A", "n", "n", "o", "u", "n", "c", "e", "m", "e", "n", "t", "s">>)
    @@ ("Exam Notifications" :> <<"E", "x", "a", "m", " ", "N", "o", "t", "i", "f", "i", "c", "a", "t", "i", "o", "n", "s">>)
    @@ ("Office Notifications" :> <<"O", "f", "f", "i", "c", "e", " ", "N", "o", "t", "i", "f", "i", "c", "a", "t", "i", "o", "n", "s">>)
    @@ ("Scholarship Section" :> <<"S", "c", "h", "o", "l", "a", "r", "s", "h", "i", "p", " ", "S", "e", "c", "t", "i", "o", "n">>)
    @@ ("Application Formats" :> <<"A", "p", "p", "l", "i", "c", "a", "t", "i", "o", "n", " ", "F", "o", "r", "m", "a", "t", "s">>)
    @@ ("Cultural Events" :> <<"C", "u", "l", "t", "u", "r", "a", "l", " ", "E", "v", "e", "n", "t", "s">>)
    @@ ("Technical Clubs" :> <<"T", "e", "c", "h", "n", "i", "c", "a", "l", " ", "C", "l", "u", "b", "s">>)
    @@ ("IEEE & CSI" :> <<"I", "E", "E", "E", " ", "&", " ", "C", "S", "I">>)

\* the dict literal {}
EmptyDict == [c \in {} |-> <<>>]

Range(s) == { s[i] : i \in 1..Len(s) }

\* item in list
InList(item, list) == \E i \in 1..Len(list) : list[i] = item

\* d.get(key, [])
Get(d, key) == IF key \in DOMAIN d THEN d[key] ELSE <<>>

\* the keys of a dict in iteration order: every dict iterated here is built
\* by parse_content or by a comprehension over such a dict
Keys(d) == SelectSeq(CATEGORIES, LAMBDA c : c \in DOMAIN d)

\* all sequences over S of length at most n
SeqsUpTo(S, n) == UNION { [1..k -> S] : k \in 0..n }

(* -------------------------- text normalisation ------------------------- *)

\* BACKTICK stands for the grave accent, which the lexer rejects in a string
markdown_chars ==
    << "_", "*", "[", "]", "(", ")", "~", "BACKTICK", ">", "#", "+", "-", "=", "|",
       "{", "}", ".", "!" >>

\* characters str.split() treats as separators
Whitespace == { " ", "\n", "\t" }

\* text.replace(old, new) for a one-character old
RECURSIVE Replace(_, _, _)
Replace(text, old, new) ==
    IF text = <<>> THEN <<>>
    ELSE (IF Head(text) = old THEN new ELSE <<Head(text)>>)
         \o Replace(Tail(text), old, new)

\* the loop over markdown_chars, from its k-th character on
RECURSIVE EscapeFrom(_, _)
EscapeFrom(text, k) ==
    IF k > Len(markdown_chars) THEN text
    ELSE EscapeFrom(Replace(text, markdown_chars[k],
                            <<"\\", markdown_chars[k]>>), k + 1)

\* text.split(): the maximal runs of non-whitespace characters
RECURSIVE SplitFrom(_, _, _)
SplitFrom(text, word, words) ==
    IF text = <<>>
    THEN (IF word = <<>> THEN words ELSE Append(words, word))
    ELSE IF Head(text) \in Whitespace
         THEN SplitFrom(Tail(text), <<>>,
                        IF word = <<>> THEN words ELSE Append(words, word))
         ELSE SplitFrom(Tail(text), Append(word, Head(text)), words)

\* " ".join(words)
RECURSIVE Join(_)
Join(words) ==
    IF words = <<>> THEN <<>>
    ELSE IF Len(words) = 1 THEN words[1]
    ELSE words[1] \o <<" ">> \o Join(Tail(words))

clean_text(text, for_markdown) ==
    LET t == IF for_markdown THEN EscapeFrom(text, 1)
             ELSE Replace(text, "\\", <<>>)
    IN  Join(SplitFrom(t, <<>>, <<>>))

(* ------------------------------ parsing -------------------------------- *)

\* heading text of a page section -> key of the notifications dict
sections_map ==
       ("Latest announcements" :> "Latest Announcements")
    @@ ("Exam Notifications" :> "Exam Notifications")
    @@ ("Office Notifications" :> "Office Notifications")
    @@ ("Scholarship Section" :> "Scholarship Section")
    @@ ("Application Formats" :> "Application Formats")
    @@ ("Cultural Events" :> "Cultural Events")
    @@ ("Technical Clubs" :> "Technical Clubs")
    @@ ("IEEE & CSI" :> "IEEE & CSI")

\* one extracted entry: the title goes through clean_text, the other
\* fields are stored as found
ParseEntry(entry) == [entry EXCEPT !.title = clean_text(entry.title, FALSE)]

RECURSIVE ParseEntries(_)
ParseEntries(entries) ==
    IF entries = <<>> THEN <<>>
    ELSE <<ParseEntry(Head(entries))>> \o ParseEntries(Tail(entries))

\* mutant: the result has a key only for the sections found on the page
parse_content_found_only(content) ==
    [ c \in { sections_map[h] : h \in DOMAIN content \cap DOMAIN sections_map }
        |-> ParseEntries(content[CHOOSE h \in DOMAIN content :
                                   h \in DOMAIN sections_map
                                   /\ sections_map[h] = c]) ]

\* A page is a function from the heading of each of its section.block
\* elements to the entries of that section that carry every required field.
\* Sections with an unknown heading are skipped; every recognised category
\* is a key of the result.
parse_content(content) ==
    [ c \in Range(CATEGORIES) |->
        LET hs == { h \in DOMAIN content :
                      h \in DOMAIN sections_map /\ sections_map[h] = c }
        IN  IF hs = {} THEN <<>>
            ELSE ParseEntries(content[CHOOSE h \in hs : TRUE]) ]

(* --------------------------- change detection -------------------------- *)

\* mutant: an item counts as seen when any section of prev holds it
find_new_notifications_any_section(cur, prev) ==
    [ section \in DOMAIN cur |->
        SelectSeq(Get(cur, section),
                  LAMBDA item :
                      ~\E other \in DOMAIN prev : InList(item, prev[other])) ]

\* mutant: previous is not consulted, every current item counts as new
find_new_notifications_all(cur, prev) ==
    [ section \in DOMAIN cur |-> Get(cur, section) ]

find_new_notifications(cur, prev) ==
    [ section \in DOMAIN cur |->
        SelectSeq(Get(cur, section),
                  LAMBDA item : ~InList(item, Get(prev, section))) ]

\* any(d.values())
AnyValues(d) == \E c \in DOMAIN d : d[c] # <<>>

(* ------------------------------ rendering ------------------------------ *)

\* MEGAPHONE, LOUDSPEAKER, LINK, CALENDAR and BUST stand for the one-character
\* emoji of the message templates
\* mutant: the text fields go through the markdown variant of clean_text
format_telegram_message_markdown(section, item) ==
    LET clean_section == clean_text(SectionChars[section], TRUE)
        clean_title == clean_text(item.title, TRUE)
        link == item.link
        base == <<"MEGAPHONE", " ", "N", "e", "w", " ">> \o clean_section
                \o <<"!", "\n", "\n">> \o clean_title
                \o <<"\n", "LINK", " ">> \o link
    IN  IF \A key \in {"date", "author"} : key \in DOMAIN item
        THEN base \o <<"\n", "CALENDAR", " ">>
                  \o clean_text(item.date, TRUE)
                  \o <<"\n", "BUST", " ">>
                  \o clean_text(item.author, TRUE)
        ELSE base

format_telegram_message(section, item) ==
    LET clean_section == clean_text(SectionChars[section], FALSE)
        clean_title == clean_text(item.title, FALSE)
        link == item.link
        base == <<"MEGAPHONE", " ", "N", "e", "w", " ">> \o clean_section
                \o <<"!", "\n", "\n">> \o clean_title
                \o <<"\n", "LINK", " ">> \o link
    IN  IF \A key \in {"date", "author"} : key \in DOMAIN item
        THEN base \o <<"\n", "CALENDAR", " ">>
                  \o clean_text(item.date, FALSE)
                  \o <<"\n", "BUST", " ">>
                  \o clean_text(item.author, FALSE)
        ELSE base

\* mutant: the date line and the author line are each added on their own
format_whatsapp_message_each(section, item) ==
    LET message == <<"LOUDSPEAKER", " ", "N", "e", "w", " ">>
                   \o SectionChars[section]
                   \o <<" ", "A", "l", "e", "r", "t", "!", "\n">>
                   \o item.title \o <<"\n", "LINK", " ">> \o item.link
    IN  message
        \o (IF "date" \in DOMAIN item
            THEN <<"\n", "CALENDAR", " ">> \o item.date ELSE <<>>)
        \o (IF "author" \in DOMAIN item
            THEN <<"\n", "BUST", " ">> \o item.author ELSE <<>>)

format_whatsapp_message(section, item) ==
    LET message == <<"LOUDSPEAKER", " ", "N", "e", "w", " ">>
                   \o SectionChars[section]
                   \o <<" ", "A", "l", "e", "r", "t", "!", "\n">>
                   \o item.title \o <<"\n", "LINK", " ">> \o item.link
    IN  IF "date" \in DOMAIN item /\ "author" \in DOMAIN item
        THEN message \o <<"\n", "CALENDAR", " ">> \o item.date
                     \o <<"\n", "BUST", " ">> \o item.author
        ELSE message

\* the (section, item) pairs of new_notifications in the order of the nested
\* loop of send_notifications
RECURSIVE PairsFrom(_, _, _)
PairsFrom(d, keys, i) ==
    IF keys = <<>> THEN <<>>
    ELSE IF i > Len(d[Head(keys)]) THEN PairsFrom(d, Tail(keys), 1)
    ELSE <<[section |-> Head(keys), item |-> d[Head(keys)][i]]>>
         \o PairsFrom(d, keys, i + 1)

\* mutant: the pairs are collected back to front
Pairs_reversed(d) ==
    LET ps == PairsFrom(d, Keys(d), 1)
    IN  [ k \in 1..Len(ps) |-> ps[Len(ps) + 1 - k] ]

Pairs(d) == PairsFrom(d, Keys(d), 1)

BuildTelegramMessages(d) ==
    LET ps == Pairs(d)
    IN  [ k \in 1..Len(ps) |->
            format_telegram_message(ps[k].section, ps[k].item) ]

BuildWhatsappMessages(d) ==
    LET ps == Pairs(d)
    IN  [ k \in 1..Len(ps) |->
            format_whatsapp_message(ps[k].section, ps[k].item) ]

(* ------------------------------- state --------------------------------- *)

VARIABLES
    config,             \* the optional channel settings of load_config()
    telegram_sender,    \* TRUE when a TelegramSender is registered
    whatsapp_sender,    \* TRUE when a WhatsAppSender is registered
    tick,               \* _tick_task: the await it is suspended at, or its end
    shutdown,           \* position of _on_shutdown
    cancel_requested,   \* _tick_task.cancel() was called and not yet delivered
    session_closed,     \* session.close() was called
    storage_closed,     \* storage.close() was called
    shutdown_error,     \* a close call of _on_shutdown raised
    persisted,          \* the document the storage holds
    current,            \* locals of check_for_updates
    previous,
    new_notifications,
    telegram_messages,  \* locals of send_notifications
    whatsapp_messages,
    idx,                \* position of the running send_items loop
    cycle,              \* number of the cycle in flight (0 before the first)
    fetched,            \* how this cycle's fetch ended
    loads,              \* load_state calls of this cycle
    saves,              \* save_state calls of this cycle
    calls,              \* send_items calls of this cycle, per channel
    args,               \* the argument of this cycle's send_items call
    attempts,           \* the messages this cycle tried to send, per channel
    failed,             \* channels that logged a non-success this cycle
    raised,             \* the channel whose send_items raised, or "none"
    events,             \* storage and sender calls of this cycle and of the
                        \* cycle before it, in order
    cycle_start,        \* the storage document when this cycle began
    sent,               \* per channel: pairs tried in an earlier cycle and on
                        \* every page fetched since
    called,             \* pure functions applied (DiffSpec, FormatSpec)
    last_ok,            \* while a fetch is under way: the snapshot of the
                        \* cycle before when its fetch succeeded, else {}
    repeat,             \* this cycle and the one before it fetched the same
                        \* content, both with status 200
    cancelled_at        \* the await at which the cancellation was delivered

cfgVars == <<config, telegram_sender, whatsapp_sender>>
sdVars == <<shutdown, cancel_requested, session_closed, storage_closed,
            shutdown_error>>
locals == <<current, previous, new_notifications, telegram_messages,
            whatsapp_messages>>
ctl == <<tick, idx, calls, args, attempts, events, saves>>
vars == <<cfgVars, sdVars, locals, ctl, persisted, cycle, fetched, loads,
          failed, raised, cycle_start, sent, called, last_ok, repeat,
          cancelled_at>>

Channels == {"telegram", "whatsapp"}

(* ---------------------------- environment ------------------------------ *)

\* entries a page can carry: the richest section lists title, link, date
\* and author, the others title and link
P1 == [title |-> <<"A">>, link |-> <<"/", "x">>,
       date |-> <<"1">>, author |-> <<"n">>]
Q1 == [title |-> <<"A">>, link |-> <<"/", "x">>]
Q2 == [title |-> <<"a", ".", " ", " ", "b">>, link |-> <<"/", "y">>]

\* the pages a fetch can return: the richest section with no entry or one,
\* a plain section with up to MaxLen entries, repeated ones included, and
\* one page that also has a section with an unknown heading
Pages ==
    { ("Latest announcements" :> l) @@ ("Exam Notifications" :> e) :
        l \in {<<>>, <<P1>>}, e \in SeqsUpTo({Q1, Q2}, MaxLen) }
    \cup { ("Placements" :> <<Q1>>) @@ ("Exam Notifications" :> <<Q2>>) }

\* session.get raised: there is no response to read a page from
NoPage == EmptyDict

\* what the storage can hold when the process starts: nothing (first run),
\* or a document of an earlier run
InitialStates ==
    { EmptyDict, ("Exam Notifications" :> <<Q1>>) }

Configs ==
    [ CHANNEL_ID : BOOLEAN, WHATSAPP_AUTH_TOKEN : BOOLEAN,
      WHATSAPP_RECIPIENT : BOOLEAN ]

NoCalls == [ch \in Channels |-> 0]
NoMessages == [ch \in Channels |-> <<>>]
NoPairs == [ch \in Channels |-> {}]

\* the pairs this cycle tried on channel ch
Tried(ch) ==
    IF attempts[ch] = <<>> THEN {}
    ELSE LET ps == Pairs(new_notifications)
         IN  { ps[k] : k \in 1..Len(attempts[ch]) }

(* ------------------------------- Init ---------------------------------- *)

\* NotificationBot.__init__
Init ==
    /\ config \in Configs
    /\ telegram_sender = FALSE
    /\ whatsapp_sender = FALSE
    /\ tick = "none"
    /\ shutdown = "idle"
    /\ cancel_requested = FALSE
    /\ session_closed = FALSE
    /\ storage_closed = FALSE
    /\ shutdown_error = FALSE
    /\ persisted \in InitialStates
    /\ current = EmptyDict
    /\ previous = EmptyDict
    /\ new_notifications = EmptyDict
    /\ telegram_messages = <<>>
    /\ whatsapp_messages = <<>>
    /\ idx = 0
    /\ cycle = 0
    /\ fetched = "pending"
    /\ loads = 0
    /\ saves = 0
    /\ calls = NoCalls
    /\ args = NoMessages
    /\ attempts = NoMessages
    /\ failed = {}
    /\ raised = "none"
    /\ events = <<>>
    /\ cycle_start = persisted
    /\ sent = NoPairs
    /\ called = {}
    /\ last_ok = EmptyDict
    /\ repeat = FALSE
    /\ cancelled_at = "none"

(* ------------------------------ storage -------------------------------- *)

\* MongoStorage.load_state(): the stored document, a mapping that may lack
\* categories or be empty
load_state(doc) == doc

\* MongoStorage.save_state(snapshot): the document stored afterwards
StoredAfterSave(doc, snapshot) == snapshot

(* ----------------------------- lifecycle ------------------------------- *)

\* post_init: register the configured senders, create the loop task
_on_init ==
    /\ tick = "none"
    /\ telegram_sender' = config.CHANNEL_ID
    /\ whatsapp_sender' =
           (config.WHATSAPP_AUTH_TOKEN /\ config.WHATSAPP_RECIPIENT)
    /\ tick' = "created"
    /\ UNCHANGED <<config, sdVars, locals, idx, calls, args, attempts, events,
                   saves, persisted, cycle, fetched, loads, failed, raised,
                   cycle_start, sent, called, last_ok, repeat,
                   cancelled_at>>

\* _tick_task.done()
TaskDone == tick \in {"done", "cancelled", "crashed"}

\* mutant: the task is neither cancelled nor awaited before session.close()
_on_shutdown_no_cancel ==
    /\ shutdown = "idle"
    /\ tick # "none"
    /\ cancel_requested' = cancel_requested
    /\ shutdown' = "close_session"
    /\ session_closed' = TRUE
    /\ UNCHANGED <<cfgVars, storage_closed, shutdown_error, locals, ctl,
                   persisted, cycle, fetched, loads, failed, raised,
                   cycle_start, sent, called, last_ok, repeat, cancelled_at>>

\* post_shutdown, up to its first await: cancel the task when it is still
\* running and wait for it, else go on to session.close()
_on_shutdown ==
    /\ shutdown = "idle"
    /\ tick # "none"
    /\ IF ~TaskDone
       THEN /\ cancel_requested' = TRUE
            /\ shutdown' = "await_task"
            /\ session_closed' = session_closed
       ELSE /\ cancel_requested' = cancel_requested
            /\ shutdown' = "close_session"
            /\ session_closed' = TRUE
    /\ UNCHANGED <<cfgVars, storage_closed, shutdown_error, locals, ctl,
                   persisted, cycle, fetched, loads, failed, raised,
                   cycle_start, sent, called, last_ok, repeat,
                   cancelled_at>>

\* await self._tick_task returns or raises CancelledError: call
\* session.close()
AwaitTickTask ==
    /\ shutdown = "await_task"
    /\ TaskDone
    /\ shutdown' = "close_session"
    /\ session_closed' = TRUE
    /\ UNCHANGED <<cfgVars, cancel_requested, storage_closed, shutdown_error,
                   locals, ctl, persisted, cycle, fetched, loads, failed,
                   raised, cycle_start, sent, called, last_ok, repeat,
                   cancelled_at>>

\* mutant: no finally clause, an exception of session.close() ends
\* _on_shutdown before storage.close()
CloseSession_no_finally ==
    /\ shutdown = "close_session"
    /\ \E err \in BOOLEAN :
          /\ shutdown_error' = (shutdown_error \/ err)
          /\ shutdown' = IF err THEN "done" ELSE "close_storage"
          /\ storage_closed' = ~err
    /\ UNCHANGED <<cfgVars, cancel_requested, session_closed, locals, ctl,
                   persisted, cycle, fetched, loads, failed, raised,
                   cycle_start, sent, called, last_ok, repeat, cancelled_at>>

\* session.close() returns or raises: the finally clause calls
\* storage.close()
CloseSession ==
    /\ shutdown = "close_session"
    /\ \E err \in BOOLEAN : shutdown_error' = (shutdown_error \/ err)
    /\ shutdown' = "close_storage"
    /\ storage_closed' = TRUE
    /\ UNCHANGED <<cfgVars, cancel_requested, session_closed, locals, ctl,
                   persisted, cycle, fetched, loads, failed, raised,
                   cycle_start, sent, called, last_ok, repeat,
                   cancelled_at>>

\* storage.close() returns or raises: _on_shutdown ends
CloseStorage ==
    /\ shutdown = "close_storage"
    /\ \E err \in BOOLEAN : shutdown_error' = (shutdown_error \/ err)
    /\ shutdown' = "done"
    /\ UNCHANGED <<cfgVars, cancel_requested, session_closed, storage_closed,
                   locals, ctl, persisted, cycle, fetched, loads, failed,
                   raised, cycle_start, sent, called, last_ok, repeat,
                   cancelled_at>>

(* --------------------------- the ticker loop --------------------------- *)

\* the task is suspended at the await named at and no cancellation is
\* pending: asyncio throws a pending cancellation into the task instead of
\* resuming it
Resumes(at) == tick = at /\ ~cancel_requested

\* sender.send_items(msgs): log the call, start the first send
Invoke(ch, msgs, ev) ==
    /\ tick' = IF ch = "telegram" THEN "tg_send" ELSE "wa_post"
    /\ idx' = 1
    /\ calls' = [calls EXCEPT ![ch] = @ + 1]
    /\ args' = [args EXCEPT ![ch] = msgs]
    /\ attempts' = [attempts EXCEPT ![ch] = Append(@, msgs[1])]
    /\ events' = Append(ev, <<cycle, "call", ch>>)
    /\ saves' = saves

\* the next message of the running send_items loop
NextMessage(ch, msgs) ==
    /\ tick' = IF ch = "telegram" THEN "tg_send" ELSE "wa_post"
    /\ idx' = idx + 1
    /\ attempts' = [attempts EXCEPT ![ch] = Append(@, msgs[idx + 1])]
    /\ UNCHANGED <<calls, args, events, saves>>

\* send_notifications has returned: storage.save_state(current) is called
IssueSave(ev) ==
    /\ tick' = "save"
    /\ idx' = 0
    /\ saves' = saves + 1
    /\ events' = Append(ev, <<cycle, "save">>)
    /\ UNCHANGED <<calls, args, attempts>>

\* send_notifications from its second if
WhatsappBranch(wm, ev) ==
    IF whatsapp_sender /\ wm # <<>>
    THEN Invoke("whatsapp", wm, ev)
    ELSE IssueSave(ev)

\* send_notifications from its first if
Dispatch(tm, wm, ev) ==
    IF telegram_sender /\ tm # <<>>
    THEN Invoke("telegram", tm, ev)
    ELSE WhatsappBranch(wm, ev)

\* an exception leaves send_items, send_notifications, check_for_updates
\* and, not being a CancelledError, _ticker_loop: the task ends
Raise(ch) ==
    /\ tick' = "crashed"
    /\ raised' = ch
    /\ events' = Append(events, <<cycle, "raise", ch>>)
    /\ UNCHANGED <<idx, calls, args, attempts, saves>>

\* mutant: the body is parsed whatever the status of the response
FetchResult_any_status(status, page) ==
    IF status = "exception" THEN EmptyDict ELSE parse_content(page)

\* the value get_latest_notifications returns
FetchResult(status, page) ==
    IF status = "200" THEN parse_content(page) ELSE EmptyDict

\* the awaits of a cycle: a task suspended at one of them has a cycle in
\* flight
AwaitPoints_cycle ==
    {"fetch", "load", "tg_send", "tg_pace", "wa_post", "wa_pace", "save"}

\* mutant: a second check_for_updates is started while the task is still
\* suspended in the first
StartCycle_overlapping ==
    /\ tick \in AwaitPoints_cycle \cup {"created", "sleep"}
    /\ ~cancel_requested
    /\ cycle < MaxCycles
    /\ cycle' = cycle + 1
    /\ tick' = "fetch"
    /\ sent' = [ch \in Channels |-> sent[ch] \cup Tried(ch)]
    /\ events' = SelectSeq(events, LAMBDA e : e[1] = cycle)
    /\ current' = EmptyDict
    /\ previous' = EmptyDict
    /\ new_notifications' = EmptyDict
    /\ telegram_messages' = <<>>
    /\ whatsapp_messages' = <<>>
    /\ idx' = 0
    /\ fetched' = "pending"
    /\ loads' = 0
    /\ saves' = 0
    /\ calls' = NoCalls
    /\ args' = NoMessages
    /\ attempts' = NoMessages
    /\ failed' = {}
    /\ cycle_start' = persisted
    /\ last_ok' = IF fetched = "200" THEN current ELSE EmptyDict
    /\ repeat' = FALSE
    /\ UNCHANGED <<cfgVars, sdVars, persisted, raised, called, cancelled_at>>

\* the loop starts a cycle: check_for_updates up to session.get
StartCycle ==
    /\ tick \in {"created", "sleep"}
    /\ ~cancel_requested
    /\ cycle < MaxCycles
    /\ cycle' = cycle + 1
    /\ tick' = "fetch"
    /\ sent' = [ch \in Channels |-> sent[ch] \cup Tried(ch)]
    /\ events' = SelectSeq(events, LAMBDA e : e[1] = cycle)
    /\ current' = EmptyDict
    /\ previous' = EmptyDict
    /\ new_notifications' = EmptyDict
    /\ telegram_messages' = <<>>
    /\ whatsapp_messages' = <<>>
    /\ idx' = 0
    /\ fetched' = "pending"
    /\ loads' = 0
    /\ saves' = 0
    /\ calls' = NoCalls
    /\ args' = NoMessages
    /\ attempts' = NoMessages
    /\ failed' = {}
    /\ cycle_start' = persisted
    /\ last_ok' = IF fetched = "200" THEN current ELSE EmptyDict
    /\ repeat' = FALSE
    /\ UNCHANGED <<cfgVars, sdVars, persisted, raised, called, cancelled_at>>

\* get_latest_notifications returns: the page of a 200 response parsed, {}
\* after another status or an exception; storage.load_state() is called
get_latest_notifications ==
    /\ Resumes("fetch")
    /\ \E status \in {"200", "non200", "exception"} :
       \E page \in IF status = "exception" THEN {NoPage} ELSE Pages :
          LET result == FetchResult(status, page)
          IN  /\ current' = result
              /\ fetched' = status
              /\ repeat' = (status = "200" /\ result = last_ok)
              /\ sent' = IF status = "200"
                         THEN [ch \in Channels |->
                                { p \in sent[ch] :
                                    InList(p.item, Get(result, p.section)) }]
                         ELSE sent
    /\ tick' = "load"
    /\ last_ok' = EmptyDict
    /\ loads' = loads + 1
    /\ events' = Append(events, <<cycle, "load">>)
    /\ UNCHANGED <<cfgVars, sdVars, previous, new_notifications,
                   telegram_messages, whatsapp_messages, idx, calls, args,
                   attempts, saves, persisted, cycle, failed, raised,
                   cycle_start, called, cancelled_at>>

\* mutant: the save is not under the if, an empty delta is saved too
check_for_updates_always_saves ==
    /\ Resumes("load")
    /\ previous' = load_state(persisted)
    /\ LET nn == find_new_notifications(current, load_state(persisted))
           tm == BuildTelegramMessages(nn)
           wm == BuildWhatsappMessages(nn)
       IN  /\ new_notifications' = nn
           /\ IF AnyValues(nn)
              THEN /\ telegram_messages' = tm
                   /\ whatsapp_messages' = wm
                   /\ Dispatch(tm, wm, events)
              ELSE /\ IssueSave(events)
                   /\ UNCHANGED <<telegram_messages, whatsapp_messages>>
    /\ UNCHANGED <<cfgVars, sdVars, current, persisted, cycle, fetched, loads,
                   failed, raised, cycle_start, sent, called, last_ok, repeat,
                   cancelled_at>>

\* load_state returns; check_for_updates runs on to its next await: the
\* first send of the dispatch, the save when no sender takes the messages,
\* or the sleep of _ticker_loop when nothing is new
check_for_updates ==
    /\ Resumes("load")
    /\ previous' = load_state(persisted)
    /\ LET nn == find_new_notifications(current, load_state(persisted))
           tm == BuildTelegramMessages(nn)
           wm == BuildWhatsappMessages(nn)
       IN  /\ new_notifications' = nn
           /\ IF AnyValues(nn)
              THEN /\ telegram_messages' = tm
                   /\ whatsapp_messages' = wm
                   /\ Dispatch(tm, wm, events)
              ELSE /\ tick' = "sleep"
                   /\ UNCHANGED <<telegram_messages, whatsapp_messages, idx,
                                  calls, args, attempts, events, saves>>
    /\ UNCHANGED <<cfgVars, sdVars, current, persisted, cycle, fetched, loads,
                   failed, raised, cycle_start, sent, called, last_ok, repeat,
                   cancelled_at>>

\* TelegramSender.send_items, one message sent: a success, a non-success
\* that is logged, or an exception; after the last message the call returns
\* and send_notifications goes on
TelegramSendOne ==
    /\ Resumes("tg_send")
    /\ \E outcome \in {"ok", "error", "raise"} :
          IF outcome = "raise"
          THEN /\ Raise("telegram")
               /\ failed' = failed
          ELSE /\ failed' = IF outcome = "error"
                            THEN failed \cup {"telegram"} ELSE failed
               /\ raised' = raised
               /\ IF idx < Len(telegram_messages)
                  THEN /\ tick' = "tg_pace"
                       /\ UNCHANGED <<idx, calls, args, attempts, events,
                                      saves>>
                  ELSE WhatsappBranch(whatsapp_messages,
                           Append(events, <<cycle, "return", "telegram">>))
    /\ UNCHANGED <<cfgVars, sdVars, locals, persisted, cycle, fetched, loads,
                   cycle_start, sent, called, last_ok, repeat,
                   cancelled_at>>

\* TelegramSender.send_items, the delay between two sends is over
TelegramPace ==
    /\ Resumes("tg_pace")
    /\ NextMessage("telegram", telegram_messages)
    /\ UNCHANGED <<cfgVars, sdVars, locals, persisted, cycle, fetched, loads,
                   failed, raised, cycle_start, sent, called, last_ok, repeat,
                   cancelled_at>>

\* mutant: send_notifications does not wait for the sender, the save is
\* issued while the first post is under way
_send_one_not_awaited ==
    /\ Resumes("wa_post")
    /\ IssueSave(events)
    /\ UNCHANGED <<cfgVars, sdVars, locals, persisted, cycle, fetched, loads,
                   failed, raised, cycle_start, sent, called, last_ok, repeat,
                   cancelled_at>>

\* WhatsAppSender._send_one: session.post answers 200, answers another
\* status (logged), or raises; then asyncio.sleep(spacing_seconds)
_send_one ==
    /\ Resumes("wa_post")
    /\ \E outcome \in {"200", "non200", "raise"} :
          IF outcome = "raise"
          THEN /\ Raise("whatsapp")
               /\ failed' = failed
          ELSE /\ failed' = IF outcome = "non200"
                            THEN failed \cup {"whatsapp"} ELSE failed
               /\ raised' = raised
               /\ tick' = "wa_pace"
               /\ UNCHANGED <<idx, calls, args, attempts, events, saves>>
    /\ UNCHANGED <<cfgVars, sdVars, locals, persisted, cycle, fetched, loads,
                   cycle_start, sent, called, last_ok, repeat,
                   cancelled_at>>

\* WhatsAppSender.send_items, the sleep after a message is over: the next
\* message, or the return to send_notifications and on to the save
send_items ==
    /\ Resumes("wa_pace")
    /\ IF idx < Len(whatsapp_messages)
       THEN NextMessage("whatsapp", whatsapp_messages)
       ELSE IssueSave(Append(events, <<cycle, "return", "whatsapp">>))
    /\ UNCHANGED <<cfgVars, sdVars, locals, persisted, cycle, fetched, loads,
                   failed, raised, cycle_start, sent, called, last_ok, repeat,
                   cancelled_at>>

\* mutant: the snapshot loaded from the storage is saved back
save_state_previous ==
    /\ Resumes("save")
    /\ persisted' = StoredAfterSave(persisted, previous)
    /\ tick' = "sleep"
    /\ UNCHANGED <<cfgVars, sdVars, locals, idx, calls, args, attempts,
                   events, saves, cycle, fetched, loads, failed, raised,
                   cycle_start, sent, called, last_ok, repeat, cancelled_at>>

\* save_state returns: the storage holds current; check_for_updates returns
\* and _ticker_loop sleeps
save_state ==
    /\ Resumes("save")
    /\ persisted' = StoredAfterSave(persisted, current)
    /\ tick' = "sleep"
    /\ UNCHANGED <<cfgVars, sdVars, locals, idx, calls, args, attempts,
                   events, saves, cycle, fetched, loads, failed, raised,
                   cycle_start, sent, called, last_ok, repeat,
                   cancelled_at>>

\* the awaits of the task
AwaitPoints == AwaitPoints_cycle \cup {"sleep"}

\* the cancellation is delivered: CancelledError is raised at the await the
\* task is suspended at (it is not an Exception, so get_latest_notifications
\* does not catch it) and caught by _ticker_loop, which returns; a task that
\* never ran is cancelled without running.  A save that was under way has
\* or has not reached the storage.
Cancelled ==
    /\ cancel_requested
    /\ tick \in AwaitPoints \cup {"created"}
    /\ cancel_requested' = FALSE
    /\ cancelled_at' = tick
    /\ tick' = IF tick = "created" THEN "cancelled" ELSE "done"
    /\ persisted' \in IF tick = "save"
                      THEN {persisted, StoredAfterSave(persisted, current)}
                      ELSE {persisted}
    /\ UNCHANGED <<cfgVars, shutdown, session_closed, storage_closed,
                   shutdown_error, locals, idx, calls, args, attempts, events,
                   saves, cycle, fetched, loads, failed, raised, cycle_start,
                   sent, called, last_ok, repeat>>

(* ------------------------------ the run -------------------------------- *)

Next ==
    \/ _on_init
    \/ _on_shutdown
    \/ AwaitTickTask
    \/ CloseSession
    \/ CloseStorage
    \/ StartCycle
    \/ get_latest_notifications
    \/ check_for_updates
    \/ TelegramSendOne
    \/ TelegramPace
    \/ _send_one
    \/ send_items
    \/ save_state
    \/ Cancelled

Spec == Init /\ [][Next]_vars

(* ------------------ the change detector on its own --------------------- *)

DiffCategories == {"Latest Announcements", "Exam Notifications"}

\* two items with the same title and link, one with date and author
DiffItems ==
    { [title |-> <<"A">>, link |-> <<"/", "x">>],
      [title |-> <<"A">>, link |-> <<"/", "x">>,
       date |-> <<"1">>, author |-> <<"n">>] }

\* dicts over some of the categories
DiffInputs ==
    UNION { [ks -> SeqsUpTo(DiffItems, DiffMaxLen)] :
              ks \in SUBSET DiffCategories }

DiffInit ==
    /\ config = [CHANNEL_ID |-> FALSE, WHATSAPP_AUTH_TOKEN |-> FALSE,
                 WHATSAPP_RECIPIENT |-> FALSE]
    /\ telegram_sender = FALSE
    /\ whatsapp_sender = FALSE
    /\ tick = "none"
    /\ shutdown = "idle"
    /\ cancel_requested = FALSE
    /\ session_closed = FALSE
    /\ storage_closed = FALSE
    /\ shutdown_error = FALSE
    /\ persisted = EmptyDict
    /\ current \in DiffInputs
    /\ previous \in DiffInputs
    /\ new_notifications = EmptyDict
    /\ telegram_messages = <<>>
    /\ whatsapp_messages = <<>>
    /\ idx = 0
    /\ cycle = 0
    /\ fetched = "pending"
    /\ loads = 0
    /\ saves = 0
    /\ calls = NoCalls
    /\ args = NoMessages
    /\ attempts = NoMessages
    /\ failed = {}
    /\ raised = "none"
    /\ events = <<>>
    /\ cycle_start = EmptyDict
    /\ sent = NoPairs
    /\ called = {}
    /\ last_ok = EmptyDict
    /\ repeat = FALSE
    /\ cancelled_at = "none"

\* new_notifications = self.find_new_notifications(current, previous)
DiffApply ==
    /\ "find_new_notifications" \notin called
    /\ new_notifications' = find_new_notifications(current, previous)
    /\ called' = called \cup {"find_new_notifications"}
    /\ UNCHANGED <<cfgVars, sdVars, current, previous, telegram_messages,
                   whatsapp_messages, ctl, persisted, cycle, fetched, loads,
                   failed, raised, cycle_start, sent, last_ok, repeat, cancelled_at>>

DiffNext == DiffApply

DiffSpec == DiffInit /\ [][DiffNext]_vars

(* ------------------------------ claims --------------------------------- *)

\* positions of cur[c] whose item equals no item of prev's section c
NewPositions(cur, prev, c) ==
    { i \in 1..Len(cur[c]) :
        \A j \in 1..Len(Get(prev, c)) : prev[c][j] # cur[c][i] }

\* res is cur filtered, section by section, to its new positions, in order
IsDelta(res, cur, prev) ==
    /\ DOMAIN res = DOMAIN cur
    /\ \A c \in DOMAIN cur :
          LET keep == NewPositions(cur, prev, c)
          IN  /\ Len(res[c]) = Cardinality(keep)
              /\ \A i \in keep :
                    res[c][Cardinality({ j \in keep : j <= i })] = cur[c][i]

\* cur is prev with one item, new to section c, appended to section c
AppendedTo(cur, prev, c) ==
    /\ DOMAIN cur = DOMAIN prev
    /\ c \in DOMAIN cur
    /\ \A d \in DOMAIN cur \ {c} : cur[d] = prev[d]
    /\ Len(cur[c]) = Len(prev[c]) + 1
    /\ SubSeq(cur[c], 1, Len(prev[c])) = prev[c]
    /\ ~InList(cur[c][Len(cur[c])], prev[c])

\* C10: find_new_notifications(current, previous) maps every category of
\* current to the subsequence of its items that equal no item of previous
\* in the same category (a missing category counts as empty), in current's
\* order; when current is previous plus one new item appended to one
\* category, the delta is that item there and empty elsewhere.
C10_DeltaDefinition ==
    "find_new_notifications" \in called =>
        /\ IsDelta(new_notifications, current, previous)
        /\ \A c \in DOMAIN current :
              AppendedTo(current, previous, c) =>
                  new_notifications =
                      [ d \in DOMAIN current |->
                          IF d = c THEN <<current[c][Len(current[c])]>>
                          ELSE <<>> ]

\* the delta of an append to a non-empty section, beside a section whose
\* item is also held by the other section of previous
C10_Witness ==
    /\ "find_new_notifications" \in called
    /\ \E c \in DOMAIN current :
          /\ AppendedTo(current, previous, c)
          /\ Len(previous[c]) >= 1
          /\ Len(new_notifications[c]) = 1
          /\ \E d \in DOMAIN previous \ {c} :
                InList(current[c][Len(current[c])], previous[d])

(* ----------------------- claims about the loop ------------------------- *)

Registered(ch) == IF ch = "telegram" THEN telegram_sender ELSE whatsapp_sender

\* the messages send_notifications builds for channel ch
MessagesFor(ch) ==
    IF ch = "telegram" THEN BuildTelegramMessages(new_notifications)
    ELSE BuildWhatsappMessages(new_notifications)

\* the cycle in flight has ended at the sleep of the loop or by an exception
CycleEnded == tick \in {"sleep", "crashed"}

\* C1: with a non-empty delta and both senders registered, when the first
\* sender's send_items raises, the second sender's send_items is still
\* invoked in that cycle and the failure does not leave send_notifications.
C1_ChannelIsolation ==
    (telegram_sender /\ whatsapp_sender /\ raised = "telegram") =>
        /\ calls["whatsapp"] = 1
        /\ tick # "crashed"

\* C2: while no stop signal is given, no error inside a cycle ends the
\* ticker loop.
C2_LoopSurvival ==
    shutdown = "idle" => ~TaskDone

\* C3: a cycle whose fetch succeeded and whose delta is non-empty ends,
\* once its dispatch was attempted, with the persisted state equal to its
\* current snapshot, whether or not a send failed.
C3_SaveAfterDispatch ==
    (fetched = "200" /\ AnyValues(new_notifications) /\ CycleEnded) =>
        persisted = current

\* C4: a cycle's save_state call comes after every sender call of its
\* dispatch has returned and before the next cycle's load_state call; a
\* cycle calls load_state at most once and save_state at most once.
C4_WriteOrdering ==
    /\ loads <= 1
    /\ saves <= 1
    /\ \A i \in DOMAIN events :
          events[i][2] \in {"load", "save"} =>
              \A j \in 1..(i - 1) : events[j] # events[i]
    /\ \A i \in DOMAIN events :
          events[i][2] = "save" =>
              /\ \A j \in DOMAIN events :
                    (events[j][1] = events[i][1] /\ events[j][2] = "call") =>
                        /\ j < i
                        /\ \E k \in DOMAIN events :
                              /\ j < k
                              /\ k < i
                              /\ events[k] =
                                   <<events[i][1], "return", events[j][3]>>
              /\ \A j \in DOMAIN events :
                    events[j][2] = "load" =>
                        IF events[j][1] <= events[i][1] THEN j < i ELSE i < j
              /\ events[i][1] = cycle =>
                    \A ch \in Channels :
                        (Registered(ch) /\ AnyValues(new_notifications)) =>
                            \E j \in DOMAIN events :
                                events[j] = <<cycle, "call", ch>>

\* a second cycle has loaded after the first saved behind both senders
C4_Witness ==
    /\ cycle = 2
    /\ \E i, j, k, l \in DOMAIN events :
          /\ events[i] = <<1, "return", "telegram">>
          /\ events[j] = <<1, "return", "whatsapp">>
          /\ events[k] = <<1, "save">>
          /\ events[l] = <<2, "load">>

\* C5: a cycle whose fetch returns a non-200 status or raises calls no
\* sender, leaves the persisted state as it was, and ends at the sleep of
\* the loop, from where the next cycle starts; only a stop signal ends the
\* loop in such a cycle.
C5_FetchFailureHarmless ==
    fetched \in {"non200", "exception"} =>
        /\ calls = NoCalls
        /\ attempts = NoMessages
        /\ saves = 0
        /\ persisted = cycle_start
        /\ tick \in {"load", "sleep", "done"}
        /\ tick = "done" => shutdown # "idle"

\* a second cycle whose fetch failed has reached the sleep with a non-empty
\* persisted state untouched, both senders registered
C5_Witness ==
    /\ fetched \in {"non200", "exception"}
    /\ cycle = 2
    /\ tick = "sleep"
    /\ AnyValues(persisted)
    /\ telegram_sender
    /\ whatsapp_sender

\* C6: in a cycle with a non-empty delta every item of the delta gets a
\* send attempt on every registered sender before the cycle ends.
C6_AtLeastAttempted ==
    (AnyValues(new_notifications) /\ CycleEnded) =>
        \A ch \in Channels :
            Registered(ch) => attempts[ch] = MessagesFor(ch)

\* C7: on a channel, no message of a send_items call is tried twice, and an
\* item tried in an earlier cycle and present on every page fetched since
\* is not tried again.
C7_AtMostOneAttempt ==
    \A ch \in Channels :
        /\ Len(attempts[ch]) <= Len(args[ch])
        /\ attempts[ch] = SubSeq(args[ch], 1, Len(attempts[ch]))
        /\ sent[ch] = {} \/ Tried(ch) \cap sent[ch] = {}

\* a later cycle tries a new item on a channel while an item tried before
\* is still on the page
C7_Witness ==
    \E ch \in Channels :
        /\ sent[ch] # {}
        /\ Tried(ch) # {}
        /\ fetched = "200"

\* C8: a send_items call of the WhatsApp sender with N messages makes
\* exactly N send attempts, in input order, whether or not an attempt
\* fails.
C8_BestEffort ==
    (calls["whatsapp"] = 1 /\ tick \in {"save", "sleep", "crashed"}) =>
        attempts["whatsapp"] = args["whatsapp"]

\* C9: in a cycle each registered sender is invoked at most once, and once
\* with the complete message sequence when the delta is non-empty; a
\* channel without a sender or without messages gets no call.
C9_InvocationCount ==
    \A ch \in Channels :
        /\ calls[ch] <= 1
        /\ (~Registered(ch) \/ MessagesFor(ch) = <<>>) => calls[ch] = 0
        /\ (Registered(ch) /\ AnyValues(new_notifications) /\ CycleEnded) =>
              /\ calls[ch] = 1
              /\ args[ch] = MessagesFor(ch)

\* the task is past the diff of the cycle in flight
Diffed ==
    /\ fetched # "pending"
    /\ tick \notin {"fetch", "load"}
    /\ cancelled_at \notin {"fetch", "load"}

\* C11: find_new_notifications(A, A) is empty in every category, and the
\* second of two successive cycles that both fetch the same content with
\* status 200 has an empty delta and dispatches nothing.
C11_NoChangeNoDelta ==
    /\ ~AnyValues(find_new_notifications(current, current))
    /\ (repeat /\ Diffed) =>
          /\ ~AnyValues(new_notifications)
          /\ calls = NoCalls
          /\ attempts = NoMessages
          /\ saves = 0

\* a second cycle fetched what the first fetched and dispatched, with both
\* senders registered, and has reached the sleep
C11_Witness ==
    /\ repeat
    /\ tick = "sleep"
    /\ AnyValues(current)
    /\ \E i \in DOMAIN events : events[i] = <<cycle - 1, "save">>
    /\ telegram_sender
    /\ whatsapp_sender

\* the current snapshot and, once computed, the delta have key set ks
KeySets(ks) ==
    /\ DOMAIN current = ks
    /\ Diffed => DOMAIN new_notifications = ks

\* C12 as claimed: in every cycle, cycles whose fetch failed included, the
\* key set of the current snapshot and of the delta computed from it is the
\* set of the eight recognized categories.
C12_KeySetAlways ==
    fetched # "pending" => KeySets(Range(CATEGORIES))

\* C12 as amended: after a fetch with status 200 the key set of the current
\* snapshot and of the delta is the set of the eight recognized categories;
\* after a failed fetch both are the empty dict.
C12_KeySet ==
    /\ Cardinality(Range(CATEGORIES)) = 8
    /\ fetched = "200" => KeySets(Range(CATEGORIES))
    /\ fetched \in {"non200", "exception"} => KeySets({})

\* the delta of a fetched page against a stored document without keys
C12_Witness ==
    /\ fetched = "200"
    /\ Diffed
    /\ previous = EmptyDict
    /\ AnyValues(new_notifications)
    /\ Cardinality(DOMAIN new_notifications) = 8

\* C13: a cycle whose delta is empty in every category invokes no sender
\* and does not call save_state; the persisted state stays as it was, also
\* when the current snapshot lacks items the persisted state holds.
C13_EmptyDeltaNoOp ==
    (Diffed /\ ~AnyValues(new_notifications)) =>
        /\ calls = NoCalls
        /\ attempts = NoMessages
        /\ saves = 0
        /\ persisted = cycle_start
        /\ \A i \in DOMAIN events :
              events[i][1] = cycle => events[i][2] = "load"

\* a cycle with status 200 and an empty delta has reached the sleep while
\* the persisted state holds an item the page no longer lists
C13_Witness ==
    /\ Diffed
    /\ fetched = "200"
    /\ ~AnyValues(new_notifications)
    /\ tick = "sleep"
    /\ telegram_sender
    /\ whatsapp_sender
    /\ \E c \in DOMAIN persisted :
          \E i \in 1..Len(persisted[c]) :
              ~InList(persisted[c][i], Get(current, c))

(* ------------------------ claims about shutdown ------------------------ *)

\* C14: on shutdown the loop task is cancelled and awaited first, then the
\* network client is closed, then the storage handle; both closes are
\* attempted also when an earlier step of the shutdown raised.
C14_ShutdownOrder ==
    /\ shutdown \in {"idle", "await_task"} =>
          ~session_closed /\ ~storage_closed
    /\ shutdown = "await_task" => (cancel_requested \/ TaskDone)
    /\ session_closed => (TaskDone /\ ~cancel_requested)
    /\ storage_closed => session_closed
    /\ shutdown = "close_session" => session_closed /\ ~storage_closed
    /\ shutdown \in {"close_storage", "done"} =>
          session_closed /\ storage_closed

\* the loop was cancelled at an await, session.close() raised, and
\* storage.close() has been called all the same
C14_Witness ==
    /\ shutdown = "close_storage"
    /\ shutdown_error
    /\ storage_closed
    /\ cancelled_at \in AwaitPoints

\* C15: a stop signal takes effect on the loop only at the sleep between
\* cycles (or before the loop has started); a cycle in flight runs to its
\* end, so none is cut off with messages tried and its state not saved.
C15_CancellationPoint ==
    /\ cancelled_at \in {"none", "created", "sleep"}
    /\ (tick = "done" /\ \E ch \in Channels : attempts[ch] # <<>>) =>
          persisted = current

(* --------------------- the renderings on their own --------------------- *)

\* texts with a markdown character, a backslash, a run of whitespace
FormatTexts ==
    { <<"A">>, <<"a", ".", "b">>, <<"x", " ", "\t", "y", " ">>,
      <<"\\", "_", "c">> }

FormatLinks == { <<"/", "x">>, <<"/", "a", "_", "b", "\\">> }

\* items with and without date and author, also with one of the two only
FormatItems ==
    [title : FormatTexts, link : FormatLinks]
    \cup [title : FormatTexts, link : FormatLinks, date : {<<"1", ".">>}]
    \cup [title : FormatTexts, link : FormatLinks, author : {<<"n", "*">>}]
    \cup [title : FormatTexts, link : FormatLinks,
          date : {<<"1", ".">>, <<" ", "2">>}, author : {<<"n", "*">>}]

\* a delta with one item in one section
FormatInputs ==
    { [ c \in {section} |-> <<item>> ] :
        section \in Range(CATEGORIES), item \in FormatItems }

FormatInit ==
    /\ config = [CHANNEL_ID |-> TRUE, WHATSAPP_AUTH_TOKEN |-> TRUE,
                 WHATSAPP_RECIPIENT |-> TRUE]
    /\ telegram_sender = TRUE
    /\ whatsapp_sender = TRUE
    /\ tick = "none"
    /\ shutdown = "idle"
    /\ cancel_requested = FALSE
    /\ session_closed = FALSE
    /\ storage_closed = FALSE
    /\ shutdown_error = FALSE
    /\ persisted = EmptyDict
    /\ current = EmptyDict
    /\ previous = EmptyDict
    /\ new_notifications \in FormatInputs
    /\ telegram_messages = <<>>
    /\ whatsapp_messages = <<>>
    /\ idx = 0
    /\ cycle = 0
    /\ fetched = "pending"
    /\ loads = 0
    /\ saves = 0
    /\ calls = NoCalls
    /\ args = NoMessages
    /\ attempts = NoMessages
    /\ failed = {}
    /\ raised = "none"
    /\ events = <<>>
    /\ cycle_start = EmptyDict
    /\ sent = NoPairs
    /\ called = {}
    /\ last_ok = EmptyDict
    /\ repeat = FALSE
    /\ cancelled_at = "none"

\* the loop of send_notifications that fills the two message lists
FormatApply ==
    /\ "format" \notin called
    /\ telegram_messages' = BuildTelegramMessages(new_notifications)
    /\ whatsapp_messages' = BuildWhatsappMessages(new_notifications)
    /\ called' = called \cup {"format"}
    /\ UNCHANGED <<cfgVars, sdVars, current, previous, new_notifications,
                   ctl, persisted, cycle, fetched, loads, failed, raised,
                   cycle_start, sent, last_ok, repeat, cancelled_at>>

FormatNext == FormatApply

FormatSpec == FormatInit /\ [][FormatNext]_vars

(* ---------------------- claims about the renderings -------------------- *)

\* the section and the item of the rendered delta
TheSection == CHOOSE c \in DOMAIN new_notifications : TRUE
TheItem == new_notifications[TheSection][1]
HasBoth == "date" \in DOMAIN TheItem /\ "author" \in DOMAIN TheItem

\* the lines of a message: its parts between line feeds
RECURSIVE LinesFrom(_, _, _)
LinesFrom(msg, line, lines) ==
    IF msg = <<>> THEN Append(lines, line)
    ELSE IF Head(msg) = "\n"
         THEN LinesFrom(Tail(msg), <<>>, Append(lines, line))
         ELSE LinesFrom(Tail(msg), Append(line, Head(msg)), lines)

Lines(msg) == LinesFrom(msg, <<>>, <<>>)

\* a sequence without its first n and its last k elements
Strip(seq, n, k) == SubSeq(seq, n + 1, Len(seq) - k)

\* what each rendering shows as category, title, date and author, and as
\* link: the telegram message has an empty second line
TelegramFields ==
    LET ls == Lines(telegram_messages[1])
    IN  <<Strip(ls[1], 6, 1), ls[3]>>
        \o (IF Len(ls) >= 6 THEN <<Strip(ls[5], 2, 0), Strip(ls[6], 2, 0)>>
            ELSE <<>>)

WhatsappFields ==
    LET ls == Lines(whatsapp_messages[1])
    IN  <<Strip(ls[1], 6, 7), ls[2]>>
        \o (IF Len(ls) >= 5 THEN <<Strip(ls[4], 2, 0), Strip(ls[5], 2, 0)>>
            ELSE <<>>)

TelegramLink == Strip(Lines(telegram_messages[1])[4], 2, 0)
WhatsappLink == Strip(Lines(whatsapp_messages[1])[3], 2, 0)

\* category, title, date and author of the item, each through f
ItemFields(f(_)) ==
    <<f(SectionChars[TheSection]), f(TheItem.title)>>
    \o (IF HasBoth THEN <<f(TheItem.date), f(TheItem.author)>> ELSE <<>>)

\* the markdown variant of the normalisation
Escaped(text) == clean_text(text, TRUE)

AsIs(text) == text

\* text without backslashes, each whitespace run between two words as one
\* space, no whitespace at either end
Plain(text) ==
    LET t == SelectSeq(text, LAMBDA ch : ch # "\\")
        keep == { i \in 1..Len(t) :
                    \/ t[i] \notin Whitespace
                    \/ /\ i > 1
                       /\ t[i - 1] \notin Whitespace
                       /\ \E j \in (i + 1)..Len(t) : t[j] \notin Whitespace }
        pos(k) == CHOOSE i \in keep : Cardinality({ j \in keep : j <= i }) = k
    IN  [ k \in 1..Cardinality(keep) |->
            IF t[pos(k)] \in Whitespace THEN " " ELSE t[pos(k)] ]

\* C16 as claimed: one of the two renderings shows category, title, date
\* and author with every markdown character prefixed by a backslash, and
\* both show the link unchanged.
C16_OneRenderingEscapes ==
    "format" \in called =>
        /\ \/ TelegramFields = ItemFields(Escaped)
           \/ WhatsappFields = ItemFields(Escaped)
        /\ TelegramLink = TheItem.link
        /\ WhatsappLink = TheItem.link

\* C16 as amended: neither rendering escapes markdown characters;
\* format_telegram_message shows category, title, date and author without
\* backslashes and with whitespace runs collapsed, format_whatsapp_message
\* shows them as they are, and both show the link unchanged.
C16_NoRenderingEscapes ==
    "format" \in called =>
        /\ TelegramFields = ItemFields(Plain)
        /\ WhatsappFields = ItemFields(AsIs)
        /\ TelegramLink = TheItem.link
        /\ WhatsappLink = TheItem.link

\* an item with date and author whose title has a markdown character and
\* whose link has a markdown character and a backslash
C16_Witness ==
    /\ "format" \in called
    /\ HasBoth
    /\ TheItem.title = <<"a", ".", "b">>
    /\ TheItem.link = <<"/", "a", "_", "b", "\\">>
    /\ TelegramFields[2] = <<"a", ".", "b">>
    /\ WhatsappFields[2] = <<"a", ".", "b">>

\* msg has an element equal to token
Shows(msg, token) == \E i \in 1..Len(msg) : msg[i] = token

\* C17: each rendering has a date line and an author line exactly when the
\* item has both date and author; an item with one of the two gets neither
\* line.
C17_DateAuthorAllOrNothing ==
    "format" \in called =>
        /\ \A msg \in {telegram_messages[1], whatsapp_messages[1]} :
              /\ Shows(msg, "CALENDAR") <=> HasBoth
              /\ Shows(msg, "BUST") <=> HasBoth
        /\ Len(Lines(telegram_messages[1])) = IF HasBoth THEN 6 ELSE 4
        /\ Len(Lines(whatsapp_messages[1])) = IF HasBoth THEN 5 ELSE 3

\* an item with author and without date, rendered without either line
C17_Witness ==
    /\ "format" \in called
    /\ "author" \in DOMAIN TheItem
    /\ "date" \notin DOMAIN TheItem
    /\ ~Shows(telegram_messages[1], "BUST")
    /\ ~Shows(whatsapp_messages[1], "BUST")

(* ------------------- claims about order and overlap -------------------- *)

\* the number of delta items in the categories that come before the n-th
RECURSIVE ItemsBefore(_)
ItemsBefore(n) ==
    IF n <= 1 THEN 0
    ELSE ItemsBefore(n - 1) + Len(Get(new_notifications, CATEGORIES[n - 1]))

\* the message of channel ch for an item of a section
Rendering(ch, section, item) ==
    IF ch = "telegram" THEN format_telegram_message(section, item)
    ELSE format_whatsapp_message(section, item)

\* send_items of channel ch has just been called with args[ch]
JustInvoked(ch) ==
    /\ calls[ch] = 1
    /\ idx = 1
    /\ tick = IF ch = "telegram" THEN "tg_send" ELSE "wa_post"

\* C18: the message sequence handed to a sender has exactly one message per
\* (category, item) pair of the delta, by category order and then by item
\* order, and the sender makes its send attempts in that order.
C18_MessageOrder ==
    \A ch \in Channels :
        /\ JustInvoked(ch) =>
              /\ Len(args[ch]) = ItemsBefore(Len(CATEGORIES) + 1)
              /\ \A n \in 1..Len(CATEGORIES) :
                    \A i \in 1..Len(Get(new_notifications, CATEGORIES[n])) :
                        args[ch][ItemsBefore(n) + i] =
                            Rendering(ch, CATEGORIES[n],
                                      new_notifications[CATEGORIES[n]][i])
        /\ \A k \in 1..Len(attempts[ch]) :
              /\ k <= Len(args[ch])
              /\ attempts[ch][k] = args[ch][k]

\* both senders have tried, in order, the three messages of a delta with
\* items in two categories
C18_Witness ==
    /\ tick = "save"
    /\ Len(new_notifications["Latest Announcements"]) = 1
    /\ Len(new_notifications["Exam Notifications"]) = 2
    /\ new_notifications["Exam Notifications"][1]
         # new_notifications["Exam Notifications"][2]
    /\ \A ch \in Channels : Len(attempts[ch]) = 3 /\ attempts[ch] = args[ch]

\* C19: a cycle begins only in a step of the one loop task that leaves the
\* task's creation or its interval sleep, so never while the fetch, load,
\* dispatch or save of the previous cycle is in flight; cycles are numbered
\* consecutively and the recorded calls and saves of a cycle never follow
\* those of a later cycle.
C19_NoOverlap ==
    [][ /\ cycle' # cycle =>
              /\ cycle' = cycle + 1
              /\ tick \notin AwaitPoints_cycle
              /\ tick = (IF cycle = 0 THEN "created" ELSE "sleep")
              /\ tick' = "fetch"
        /\ \A i \in 1..Len(events') : events'[i][1] <= cycle'
        /\ \A i \in 1..(Len(events') - 1) : events'[i][1] <= events'[i + 1][1]
      ]_vars

\* a second cycle has begun after a first one that sent and saved
C19_Witness ==
    /\ cycle = 2
    /\ tick = "fetch"
    /\ \E i \in 1..Len(events) : events[i] = <<1, "save">>
    /\ \E i \in 1..Len(events) : events[i][2] = "call"

\* a step of the task that issues a fetch, a storage load or save, or a
\* channel send
Issues ==
    /\ tick' \in {"fetch", "load", "tg_send", "wa_post", "save"}
    /\ <<tick', idx', cycle'>> # <<tick, idx, cycle>>

\* C20: once session.close() or storage.close() has been called no step
\* issues a fetch, a load, a send or a save, and the session is closed only
\* by a step of _on_shutdown, never by a step of the task or of a sender.
C20_NoUseAfterClose ==
    [][ /\ (session_closed \/ storage_closed) => ~Issues
        /\ session_closed' # session_closed =>
              /\ shutdown \in {"idle", "await_task"}
              /\ shutdown' = "close_session"
              /\ UNCHANGED <<tick, idx, attempts, calls>>
      ]_vars

\* the shutdown arrived while a send was in flight and has closed both
C20_Witness ==
    /\ cancelled_at \in {"tg_send", "wa_post"}
    /\ session_closed
    /\ storage_closed
    /\ shutdown = "done"

====
